---- MODULE Spec2Model ----
(***************************************************************************)
(* Model of benchmark_sampler.py: the stratified benchmark sampler.        *)
(*                                                                         *)
(* Text (identifiers, file names, HH:MM:SS strings, transcripts) is a      *)
(* sequence of one-character strings, so that lower-casing, substring      *)
(* search, splitting, integer parsing and the regular expression of        *)
(* extract_original_id are computed character by character.                *)
(* Segment durations are in milliseconds (0.5 s = 500, 30.0 s = 30000).    *)
(* A data-frame is a sequence of records; the record's fields are its      *)
(* columns; the field idx of a segment row is its pandas index label.      *)
(***************************************************************************)
EXTENDS Integers, Sequences, FiniteSets, TLC

(* ---------------- bounds of the model ---------------- *)
MaxSegments == 3
MaxTarget == 2

(* ---------------- configuration (lines 20-23) ---------------- *)
MIN_SEGMENT_DURATION == 500
MAX_SEGMENT_DURATION == 30000
RANDOM_SEED == 42
GROUP_ID == 33
BASE_ID == 2159570

(* ---------------- text helpers ---------------- *)
\* a missing cell (pandas NaN); never equal to a text, whose elements are
\* single characters
NaN == <<"NaN">>

isna(x) == x = NaN

Digits == <<"0", "1", "2", "3", "4", "5", "6", "7", "8", "9">>

IsDigit(c) == \E i \in 1..10 : Digits[i] = c

DigitVal(c) == (CHOOSE i \in 1..10 : Digits[i] = c) - 1

UpperCs == <<"A", "B", "C", "D", "E", "F", "G", "H", "I", "J", "K", "L", "M",
             "N", "O", "P", "Q", "R", "S", "T", "U", "V", "W", "X", "Y", "Z">>

LowerCs == <<"a", "b", "c", "d", "e", "f", "g", "h", "i", "j", "k", "l", "m",
             "n", "o", "p", "q", "r", "s", "t", "u", "v", "w", "x", "y", "z">>

\* str.lower() on one character
LowerChar(c) ==
  IF \E i \in 1..26 : UpperCs[i] = c
  THEN LowerCs[CHOOSE i \in 1..26 : UpperCs[i] = c]
  ELSE c

\* str.lower()
lower(s) == [i \in 1..Len(s) |-> LowerChar(s[i])]

\* the Python operator  sub in s
Contains(s, sub) ==
  \E i \in 0..(Len(s) - Len(sub)) : \A j \in 1..Len(sub) : s[i + j] = sub[j]

\* str.split(sep) for a one-character separator: the list of the parts
RECURSIVE Split(_, _)
Split(s, sep) ==
  IF \A i \in 1..Len(s) : s[i] # sep
  THEN <<s>>
  ELSE LET k == CHOOSE i \in 1..Len(s) :
                  s[i] = sep /\ \A j \in 1..(i - 1) : s[j] # sep
       IN <<SubSeq(s, 1, k - 1)>> \o Split(SubSeq(s, k + 1, Len(s)), sep)

\* int(p) accepts an optional sign followed by one or more digits
\* (the inputs of the model hold no white space and no digit separators)
HasSign(p) == Len(p) >= 1 /\ p[1] \in {"-", "+"}

Unsigned(p) == IF HasSign(p) THEN SubSeq(p, 2, Len(p)) ELSE p

IntParses(p) ==
  /\ Len(Unsigned(p)) >= 1
  /\ \A i \in 1..Len(Unsigned(p)) : IsDigit(Unsigned(p)[i])

RECURSIVE DigitsValue(_)
DigitsValue(d) ==
  IF Len(d) = 0 THEN 0
  ELSE 10 * DigitsValue(SubSeq(d, 1, Len(d) - 1)) + DigitVal(d[Len(d)])

IntValue(p) ==
  IF HasSign(p) /\ p[1] = "-" THEN 0 - DigitsValue(Unsigned(p))
  ELSE DigitsValue(Unsigned(p))

(* ---------------- metadata derivation (lines 26-61) ---------------- *)
\* parse_duration raises ValueError when the string does not split into
\* exactly three parts or a part is not an integer literal
parse_duration_raises(time_str) ==
  /\ ~isna(time_str)
  /\ LET p == Split(time_str, ":")
     IN Len(p) # 3 \/ \E i \in 1..Len(p) : ~IntParses(p[i])

\* the value parse_duration returns when it does not raise
parse_duration(time_str) ==
  IF isna(time_str) THEN 0
  ELSE LET p == Split(time_str, ":")
       IN IntValue(p[1]) * 3600 + IntValue(p[2]) * 60 + IntValue(p[3])

duration_category(seconds) ==
  IF seconds < 300 THEN "short"
  ELSE IF seconds < 900 THEN "medium"
  ELSE "long"

\* faulty variant: the Q&A test also accepts the spelling "q&a"
extract_content_type_Ampersand(filename) ==
  LET lower_name == lower(filename)
  IN IF \/ Contains(lower_name, <<"q", "a">>)
        \/ Contains(lower_name, <<"q", "&", "a">>)
     THEN "Q&A"
     ELSE IF Contains(lower_name, <<"p", "r", "a", "c", "t", "i", "c", "e">>)
       THEN "Practice"
     ELSE IF \/ Contains(lower_name, <<"d", "e", "d", "i", "c", "a", "t", "i", "o", "n">>)
             \/ Contains(lower_name, <<"p", "r", "a", "y", "e", "r">>)
       THEN "Prayer"
     ELSE "Teaching"

extract_content_type(filename) ==
  LET lower_name == lower(filename)
  IN IF Contains(lower_name, <<"q", "a">>) THEN "Q&A"
     ELSE IF Contains(lower_name, <<"p", "r", "a", "c", "t", "i", "c", "e">>)
       THEN "Practice"
     ELSE IF \/ Contains(lower_name, <<"d", "e", "d", "i", "c", "a", "t", "i", "o", "n">>)
             \/ Contains(lower_name, <<"p", "r", "a", "y", "e", "r">>)
       THEN "Prayer"
     ELSE "Teaching"

\* re.match(r'(STT_GR_\d+)_', segment_id): the prefix, then a greedy run of
\* digits that backtracks until an underscore follows it
IdPrefix == <<"S", "T", "T", "_", "G", "R", "_">>

MatchLens(segment_id) ==
  IF Len(segment_id) < 9 \/ SubSeq(segment_id, 1, 7) # IdPrefix THEN {}
  ELSE {k \in 1..(Len(segment_id) - 8) :
          /\ \A i \in 8..(7 + k) : IsDigit(segment_id[i])
          /\ segment_id[8 + k] = "_"}

extract_original_id(segment_id) ==
  LET lens == MatchLens(segment_id)
  IN IF lens # {}
     THEN SubSeq(segment_id, 1, 7 + (CHOOSE k \in lens : \A j \in lens : j <= k))
     ELSE segment_id

(* ---------------- inputs: gr_catalog.csv and GR.csv ---------------- *)
ID_0001 == <<"S", "T", "T", "_", "G", "R", "_", "0", "0", "0", "1">>

ID_0002 == <<"S", "T", "T", "_", "G", "R", "_", "0", "0", "0", "2">>

CatRow(id, filename, dur, age) ==
  [ID |-> id, Filename |-> filename, Duration |-> dur, AGE |-> age]

\* the catalog tables of the model (column Duration is the column
\* 'Original Full Audio Duration')
Row_QandA == CatRow(ID_0001, <<"Q", "&", "A", " ", "S", "e", "s", "s", "i", "o", "n", " ", "1">>, <<"0", "0", ":", "0", "6", ":", "0", "0">>, "Adult")

Row_QAPractice == CatRow(ID_0002, <<"G", "R", "_", "Q", "A", "_", "P", "r", "a", "c", "t", "i", "c", "e">>, <<"0", "0", ":", "0", "4", ":", "5", "9">>, "Adult")

Row_Teaching == CatRow(ID_0002, <<"T", "e", "a", "c", "h", "i", "n", "g">>, <<"0", "0", ":", "1", "4", ":", "5", "9">>, "Adult")

Row_Prayer == CatRow(ID_0002, <<"D", "e", "d", "i", "c", "a", "t", "i", "o", "n", " ", "P", "r", "a", "y", "e", "r">>, NaN, "Senior")

Row_Practice == CatRow(ID_0001, <<"P", "r", "a", "c", "t", "i", "c", "e">>, <<"0", "0", ":", "1", "5", ":", "0", "0">>, "Senior")

Row_TwoParts == CatRow(ID_0002, <<"T", "e", "a", "c", "h", "i", "n", "g">>, <<"1", "2", ":", "3", "4">>, "Adult")

Row_Text == CatRow(ID_0002, <<"T", "e", "a", "c", "h", "i", "n", "g">>, <<"a", "b", "c">>, "Adult")

Catalogs ==
  { <<Row_QandA, Row_QAPractice>>,
    <<Row_QandA, Row_Teaching>>,
    <<Row_Practice, Row_Prayer>>,
    <<Row_QandA, Row_TwoParts>>,
    <<Row_Text, Row_QandA>>,
    <<Row_QandA, Row_Practice>> }

\* an audio_duration cell: a number of milliseconds, a missing value, or a
\* text that is no number
Num(ms) == [t |-> "float", v |-> ms]

NanCell == [t |-> "nan", v |-> 0]

TextCell == [t |-> "str", v |-> 0]

Transcript == <<"o", "m">>

\* the url of a row is the last two characters of its name behind a slash
SegRow(name, dur, tr) ==
  [file_name |-> name, url |-> <<"/">> \o SubSeq(name, Len(name) - 1, Len(name)),
   audio_duration |-> dur, inference_transcript |-> tr]

Seg_Example == SegRow(<<"S", "T", "T", "_", "G", "R", "_", "0", "0", "0", "1", "_", "0", "0", "0", "3", "_", "2", "2", "3", "0", "0", "_", "t", "o", "_", "2", "7", "8", "0", "0">>, Num(5500), Transcript)

Seg_AtMin == SegRow(<<"S", "T", "T", "_", "G", "R", "_", "0", "0", "0", "1", "_", "0", "4">>, Num(500), NaN)

Seg_AtMax == SegRow(<<"S", "T", "T", "_", "G", "R", "_", "0", "0", "0", "2", "_", "0", "1">>, Num(30000), Transcript)

Seg_BelowMin == SegRow(<<"S", "T", "T", "_", "G", "R", "_", "0", "0", "0", "1", "_", "0", "5">>, Num(499), Transcript)

Seg_AboveMax == SegRow(<<"S", "T", "T", "_", "G", "R", "_", "0", "0", "0", "2", "_", "0", "2">>, Num(30001), Transcript)

Seg_Unknown == SegRow(<<"S", "T", "T", "_", "G", "R", "_", "0", "0", "0", "9", "_", "0", "1">>, Num(2000), Transcript)

Seg_NoPattern == SegRow(<<"S", "T", "T", "_", "G", "R", "_", "0", "0", "0", "1">>, Num(1000), Transcript)

Seg_NanDuration == SegRow(<<"S", "T", "T", "_", "G", "R", "_", "0", "0", "0", "1", "_", "0", "6">>, NanCell, Transcript)

Seg_TextDuration == SegRow(<<"S", "T", "T", "_", "G", "R", "_", "0", "0", "0", "2", "_", "0", "3">>, TextCell, Transcript)

\* the rows GR.csv is made of, in file order
MasterTable ==
  << Seg_AtMax, Seg_Example, Seg_BelowMin, Seg_AtMin, Seg_Unknown,
     Seg_NoPattern, Seg_AboveMax, Seg_NanDuration, Seg_TextDuration >>

\* the same row in a table that has no inference_transcript column
WithoutTranscript(r) ==
  [file_name |-> r.file_name, url |-> r.url, audio_duration |-> r.audio_duration]

\* the rows of table whose positions are in keep, in table order
RECURSIVE Pick(_, _)
Pick(table, keep) ==
  IF table = <<>> THEN <<>>
  ELSE LET rest == Pick(SubSeq(table, 1, Len(table) - 1), keep)
       IN IF Len(table) \in keep THEN Append(rest, table[Len(table)]) ELSE rest

\* the segment tables of the model: up to MaxSegments rows of MasterTable
SegmentTables ==
  { Pick(MasterTable, keep) :
      keep \in {k \in SUBSET (1..Len(MasterTable)) : Cardinality(k) <= MaxSegments} }

(* ---------------- the random stream (numpy's global RandomState) ------- *)
\* The generator is a deterministic function of its state; a linear
\* congruential step over RngStates stands for the Mersenne Twister step.
RngModulus == 31

RngStates == 0..(RngModulus - 1)

\* the states the generator may hold when the process starts (seeded from
\* the operating system's entropy at import)
Entropy == {0, 1}

RngNext(s) == (7 * s + 3) % RngModulus

\* np.random.seed(seed)
SeedState(seed) == seed % RngModulus

\* shuffle of RandomState: for i = n-1 down to 1, swap x[i] with x[j], j
\* drawn in 0..i (sequences are 1-based: position i+1 holds x[i])
RECURSIVE Shuffle(_, _, _)
Shuffle(x, i, s) ==
  IF i < 1 THEN [perm |-> x, rng |-> s]
  ELSE LET s1 == RngNext(s)
           j == s1 % (i + 1)
           y == [x EXCEPT ![i + 1] = x[j + 1], ![j + 1] = x[i + 1]]
       IN Shuffle(y, i - 1, s1)

\* DataFrame.sample(n): choice(len, size=n, replace=False), which is the first
\* n places of a permutation of the row positions; the rows are taken in that
\* order
Sample(rows, n, s) ==
  LET sh == Shuffle([k \in 1..Len(rows) |-> k], Len(rows) - 1, s)
  IN [selected |-> [k \in 1..n |-> rows[sh.perm[k]]], rng |-> sh.rng]

(* ---------------- data-frame helpers ---------------- *)
Range(f) == {f[i] : i \in DOMAIN f}

Min(a, b) == IF a <= b THEN a ELSE b

RECURSIVE Concat(_)
Concat(ss) == IF ss = <<>> THEN <<>> ELSE Head(ss) \o Concat(Tail(ss))

\* faulty variant: the stratum's rows are not filtered out of the table
RowsOf_NoFilter(df, stratum) == df

\* the rows of df whose column strata equals stratum, in table order
RowsOf(df, stratum) == SelectSeq(df, LAMBDA r : r.strata = stratum)

\* Counter(column): the distinct values in order of first appearance, each
\* with its number of occurrences
RECURSIVE FirstAppearance(_)
FirstAppearance(col) ==
  IF col = <<>> THEN <<>>
  ELSE LET rest == FirstAppearance(SubSeq(col, 1, Len(col) - 1))
           last == col[Len(col)]
       IN IF last \in Range(rest) THEN rest ELSE Append(rest, last)

Counter(col) ==
  LET keys == FirstAppearance(col)
  IN [k \in 1..Len(keys) |->
        [stratum |-> keys[k],
         count |-> Cardinality({i \in 1..Len(col) : col[i] = keys[k]})]]

(* ---------------- state ---------------- *)
VARIABLES
  catalog_in,            \* gr_catalog.csv as read
  segments_df,           \* GR.csv as read
  SEGMENTS_PER_STRATUM,  \* the target number of segments per stratum
  run,                   \* 1: first run of the script, 2: the same run again
  first_run,             \* the selection the first run produced
  pc,                    \* the stage main() has reached
  error,                 \* the exception main() ended with, "" for none
  catalog_df,            \* the catalog with its derived columns
  id_to_strata,
  id_to_metadata,
  valid_segments,
  strata_counts,
  rng,                   \* the state of numpy's global generator
  next_stratum,          \* position of the loop of line 120 in strata_counts
  benchmark_segments,
  benchmark_df,
  formatted_output,
  strata_mapping_df,
  benchmark_json

vars == <<catalog_in, segments_df, SEGMENTS_PER_STRATUM, run, first_run, pc,
          error, catalog_df, id_to_strata, id_to_metadata, valid_segments,
          strata_counts, rng, next_stratum, benchmark_segments, benchmark_df,
          formatted_output, strata_mapping_df, benchmark_json>>

inputs == <<catalog_in, segments_df, SEGMENTS_PER_STRATUM>>

\* the state of a run that has not started
Fresh ==
  /\ pc = "read"
  /\ error = ""
  /\ catalog_df = <<>>
  /\ id_to_strata = <<>>
  /\ id_to_metadata = <<>>
  /\ valid_segments = <<>>
  /\ strata_counts = <<>>
  /\ next_stratum = 1
  /\ benchmark_segments = <<>>
  /\ benchmark_df = <<>>
  /\ formatted_output = <<>>
  /\ strata_mapping_df = <<>>
  /\ benchmark_json = <<>>

Init ==
  /\ catalog_in \in Catalogs
  /\ \E tbl \in SegmentTables :
       \/ segments_df = tbl
       \/ segments_df = [i \in 1..Len(tbl) |-> WithoutTranscript(tbl[i])]
  /\ SEGMENTS_PER_STRATUM \in 1..MaxTarget
  /\ run = 1
  /\ first_run = <<>>
  /\ rng \in Entropy
  /\ Fresh

Raise(exc) ==
  /\ pc' = "failed"
  /\ error' = exc

(* ---------------- lines 76-85: the duration filter ---------------- *)
\* astype(float) raises ValueError on a cell that is no number
astype_float_raises(df) == \E i \in 1..Len(df) : df[i].audio_duration.t = "str"

\* faulty variant: the bounds are exclusive
InRange_Exclusive(d) ==
  /\ d.t = "float"
  /\ d.v > MIN_SEGMENT_DURATION
  /\ d.v < MAX_SEGMENT_DURATION

\* the comparisons of lines 79-80; every comparison with NaN is False
InRange(d) ==
  /\ d.t = "float"
  /\ d.v >= MIN_SEGMENT_DURATION
  /\ d.v <= MAX_SEGMENT_DURATION

\* segments_df[mask], which keeps the index labels, then the column
\* original_id of line 85
DurationFiltered(df) ==
  LET labelled == [i \in 1..Len(df) |-> [idx |-> i] @@ df[i]]
      kept == SelectSeq(labelled, LAMBDA r : InRange(r.audio_duration))
  IN [k \in 1..Len(kept) |->
        [original_id |-> extract_original_id(kept[k].file_name)] @@ kept[k]]

FilterByDuration ==
  /\ pc = "read"
  /\ IF astype_float_raises(segments_df)
     THEN /\ Raise("ValueError: could not convert string to float")
          /\ UNCHANGED valid_segments
     ELSE /\ valid_segments' = DurationFiltered(segments_df)
          /\ pc' = "derive"
          /\ UNCHANGED error
  /\ UNCHANGED <<inputs, run, first_run, catalog_df, id_to_strata,
                 id_to_metadata, strata_counts, rng, next_stratum,
                 benchmark_segments, benchmark_df, formatted_output,
                 strata_mapping_df, benchmark_json>>

(* ---------------- lines 87-100: the catalog's derived columns ---------- *)
\* the f-string of line 94
StrataKey(age, category, content_type) ==
  age \o "__" \o category \o "__" \o content_type

Derived(row) ==
  LET seconds == parse_duration(row.Duration)
      category == duration_category(seconds)
      content_type == extract_content_type(row.Filename)
  IN [split_duration_seconds |-> seconds,
      duration_category |-> category,
      content_type |-> content_type,
      strata |-> StrataKey(row.AGE, category, content_type)] @@ row

\* dict(zip(keys, values)): a later pair replaces an earlier one with its key
ZipDict(keys, values) ==
  [id \in Range(keys) |->
     values[CHOOSE i \in 1..Len(keys) :
              /\ keys[i] = id
              /\ \A j \in (i + 1)..Len(keys) : keys[j] # id]]

\* to_dict('index') raises ValueError when the index is not unique
to_dict_raises(df) ==
  \E i, j \in 1..Len(df) : i # j /\ df[i].ID = df[j].ID

Metadata(row) ==
  [AGE |-> row.AGE, duration_category |-> row.duration_category,
   content_type |-> row.content_type]

DeriveCatalog ==
  /\ pc = "derive"
  /\ IF \E i \in 1..Len(catalog_in) : parse_duration_raises(catalog_in[i].Duration)
     THEN /\ Raise("ValueError: parse_duration")
          /\ UNCHANGED <<catalog_df, id_to_strata, id_to_metadata>>
     ELSE LET df == [i \in 1..Len(catalog_in) |-> Derived(catalog_in[i])]
          IN /\ catalog_df' = df
             /\ id_to_strata' =
                  ZipDict([i \in 1..Len(df) |-> df[i].ID],
                          [i \in 1..Len(df) |-> df[i].strata])
             /\ IF to_dict_raises(df)
                THEN /\ Raise("ValueError: DataFrame index must be unique")
                     /\ UNCHANGED id_to_metadata
                ELSE /\ id_to_metadata' =
                          ZipDict([i \in 1..Len(df) |-> df[i].ID],
                                  [i \in 1..Len(df) |-> Metadata(df[i])])
                     /\ pc' = "join"
                     /\ UNCHANGED error
  /\ UNCHANGED <<inputs, run, first_run, valid_segments, strata_counts, rng,
                 next_stratum, benchmark_segments, benchmark_df,
                 formatted_output, strata_mapping_df, benchmark_json>>

(* ---------------- lines 102-107: segments joined to their stratum ------ *)
\* faulty variant: the rows without a stratum are kept under a filler key
MapStrata_KeepsUnresolved(df, mapping) ==
  [k \in 1..Len(df) |->
     [strata |-> IF df[k].original_id \in DOMAIN mapping
                 THEN mapping[df[k].original_id] ELSE "Unknown"] @@ df[k]]

\* Series.map(dict) gives NaN for an original_id that is no key of the dict;
\* dropna(subset=['strata']) removes those rows
MapStrata(df, mapping) ==
  LET resolved == SelectSeq(df, LAMBDA r : r.original_id \in DOMAIN mapping)
  IN [k \in 1..Len(resolved) |->
        [strata |-> mapping[resolved[k].original_id]] @@ resolved[k]]

JoinStrata ==
  /\ pc = "join"
  /\ valid_segments' = MapStrata(valid_segments, id_to_strata)
  /\ pc' = "count"
  /\ UNCHANGED <<inputs, run, first_run, error, catalog_df, id_to_strata,
                 id_to_metadata, strata_counts, rng, next_stratum,
                 benchmark_segments, benchmark_df, formatted_output,
                 strata_mapping_df, benchmark_json>>

(* ---------------- lines 109-118: strata counted, generator seeded ------- *)
\* faulty variant: the generator is not seeded
SeedGenerator_Unseeded(s) == s

SeedGenerator(s) == SeedState(RANDOM_SEED)

CountStrata ==
  /\ pc = "count"
  /\ strata_counts' =
       Counter([k \in 1..Len(valid_segments) |-> valid_segments[k].strata])
  /\ rng' = SeedGenerator(rng)
  /\ benchmark_segments' = <<>>
  /\ next_stratum' = 1
  /\ pc' = "sample"
  /\ UNCHANGED <<inputs, run, first_run, error, catalog_df, id_to_strata,
                 id_to_metadata, valid_segments, benchmark_df,
                 formatted_output, strata_mapping_df, benchmark_json>>

(* ---------------- lines 120-134: one pass of the sampling loop ---------- *)
\* faulty variant: the whole stratum is taken whatever its size
SelectFrom_TakesAll(stratum_segments, target, s) ==
  [selected |-> stratum_segments, rng |-> s]

\* lines 121-132 for one stratum: the rows selected and the generator after
SelectFrom(stratum_segments, target, s) ==
  LET target_count == Min(target, Len(stratum_segments))
  IN IF Len(stratum_segments) <= target_count
     THEN [selected |-> stratum_segments, rng |-> s]
     ELSE Sample(stratum_segments, target_count, s)

SampleStratum ==
  /\ pc = "sample"
  /\ next_stratum <= Len(strata_counts)
  /\ LET stratum == strata_counts[next_stratum].stratum
         res == SelectFrom(RowsOf(valid_segments, stratum),
                           SEGMENTS_PER_STRATUM, rng)
     IN /\ benchmark_segments' = Append(benchmark_segments, res.selected)
        /\ rng' = res.rng
  /\ next_stratum' = next_stratum + 1
  /\ UNCHANGED <<inputs, run, first_run, pc, error, catalog_df, id_to_strata,
                 id_to_metadata, valid_segments, strata_counts, benchmark_df,
                 formatted_output, strata_mapping_df, benchmark_json>>

(* ---------------- lines 136-142: the selection and its labels ----------- *)
\* id_to_metadata.get(x, {}).get(column, 'Unknown')
MetadataOf(mapping, x, column) ==
  IF x \in DOMAIN mapping THEN mapping[x][column] ELSE "Unknown"

Labelled(r, mapping) ==
  [age_group |-> MetadataOf(mapping, r.original_id, "AGE"),
   duration_category |-> MetadataOf(mapping, r.original_id, "duration_category"),
   content_type |-> MetadataOf(mapping, r.original_id, "content_type")] @@ r

\* pd.concat raises ValueError on an empty list
Assemble ==
  /\ pc = "sample"
  /\ next_stratum > Len(strata_counts)
  /\ IF benchmark_segments = <<>>
     THEN /\ Raise("ValueError: No objects to concatenate")
          /\ UNCHANGED benchmark_df
     ELSE /\ benchmark_df' =
               LET df == Concat(benchmark_segments)
               IN [k \in 1..Len(df) |-> Labelled(df[k], id_to_metadata)]
          /\ pc' = "write"
          /\ UNCHANGED error
  /\ UNCHANGED <<inputs, run, first_run, catalog_df, id_to_strata,
                 id_to_metadata, valid_segments, strata_counts, rng,
                 next_stratum, benchmark_segments, formatted_output,
                 strata_mapping_df, benchmark_json>>

(* ---------------- lines 149-201: the output tables ---------------- *)
HasColumn(r, column) == column \in DOMAIN r

\* faulty variant: the identifiers start one above the base value
Formatted_OneBased(df) ==
  [k \in 1..Len(df) |->
     [file_name |-> df[k].file_name,
      url |-> df[k].url,
      inference_transcript |->
        IF "inference_transcript" \in DOMAIN df[k]
        THEN df[k].inference_transcript ELSE <<>>,
      audio_duration |-> df[k].audio_duration,
      group_id |-> GROUP_ID,
      state |-> "transcribing",
      id |-> BASE_ID + k]]

\* lines 150-169: group_id, state, id, and the inference_transcript column
\* added as '' only when the table has no such column
Formatted(df) ==
  [k \in 1..Len(df) |->
     [file_name |-> df[k].file_name,
      url |-> df[k].url,
      inference_transcript |->
        IF HasColumn(df[k], "inference_transcript")
        THEN df[k].inference_transcript ELSE <<>>,
      audio_duration |-> df[k].audio_duration,
      group_id |-> GROUP_ID,
      state |-> "transcribing",
      id |-> BASE_ID + (k - 1)]]

\* line 176
StrataMapping(df) ==
  [k \in 1..Len(df) |->
     [file_name |-> df[k].file_name, original_id |-> df[k].original_id,
      strata |-> df[k].strata, audio_duration |-> df[k].audio_duration]]

\* lines 185-201
AnnotationJson(df) ==
  [k \in 1..Len(df) |->
     [id |-> df[k].file_name,
      url |-> df[k].url,
      duration |-> df[k].audio_duration.v,
      metadata |->
        [original_file_id |-> df[k].original_id,
         age_group |-> df[k].age_group,
         content_type |-> df[k].content_type,
         duration_category |-> df[k].duration_category,
         strata |-> df[k].strata],
      segment_info |->
        [transcript |->
           IF HasColumn(df[k], "inference_transcript")
           THEN df[k].inference_transcript ELSE <<>>]]]

WriteOutputs ==
  /\ pc = "write"
  /\ formatted_output' = Formatted(benchmark_df)
  /\ strata_mapping_df' = StrataMapping(valid_segments)
  /\ benchmark_json' = AnnotationJson(benchmark_df)
  /\ pc' = "done"
  /\ UNCHANGED <<inputs, run, first_run, error, catalog_df, id_to_strata,
                 id_to_metadata, valid_segments, strata_counts, rng,
                 next_stratum, benchmark_segments, benchmark_df>>

(* ---------------- lines 270-272: the script run again ---------------- *)
\* a second process on the same two files: nothing of the first run remains
\* but what it wrote, and the generator starts from fresh entropy
RunAgain ==
  /\ pc = "done"
  /\ run = 1
  /\ run' = 2
  /\ first_run' = <<benchmark_df>>
  /\ rng' \in Entropy
  /\ pc' = "read"
  /\ catalog_df' = <<>>
  /\ id_to_strata' = <<>>
  /\ id_to_metadata' = <<>>
  /\ valid_segments' = <<>>
  /\ strata_counts' = <<>>
  /\ next_stratum' = 1
  /\ benchmark_segments' = <<>>
  /\ benchmark_df' = <<>>
  /\ formatted_output' = <<>>
  /\ strata_mapping_df' = <<>>
  /\ benchmark_json' = <<>>
  /\ UNCHANGED <<inputs, error>>

Next ==
  \/ FilterByDuration
  \/ DeriveCatalog
  \/ JoinStrata
  \/ CountStrata
  \/ SampleStratum
  \/ Assemble
  \/ WriteOutputs
  \/ RunAgain

Spec == Init /\ [][Next]_vars

(* ======================= properties ======================= *)
Sampled == pc \in {"write", "done"}

Indexes(df) == {df[k].idx : k \in 1..Len(df)}

\* the rows of df that are in the named stratum, as index labels in df's order
LabelsIn(df, stratum) ==
  LET rows == SelectSeq(df, LAMBDA r : r.strata = stratum)
  IN [k \in 1..Len(rows) |-> rows[k].idx]

RECURSIVE SumOfMin(_, _)
SumOfMin(counts, target) ==
  IF counts = <<>> THEN 0
  ELSE Min(target, Head(counts).count) + SumOfMin(Tail(counts), target)

\* C1: once the sampling loop has finished, a stratum of n valid segments
\* contributes exactly min(T, n) rows, the whole group when n <= T; the
\* selection's size is the sum of min(T, n) over the strata and is at most the
\* number of valid segments.
C1_StratumContribution ==
  Sampled =>
    /\ \A k \in 1..Len(strata_counts) :
         LET st == strata_counts[k].stratum
             n == Len(LabelsIn(valid_segments, st))
         IN /\ n = strata_counts[k].count
            /\ Len(LabelsIn(benchmark_df, st)) = Min(SEGMENTS_PER_STRATUM, n)
            /\ n <= SEGMENTS_PER_STRATUM =>
                 LabelsIn(benchmark_df, st) = LabelsIn(valid_segments, st)
            /\ n > SEGMENTS_PER_STRATUM =>
                 Len(LabelsIn(benchmark_df, st)) = SEGMENTS_PER_STRATUM
    /\ Len(benchmark_df) = SumOfMin(strata_counts, SEGMENTS_PER_STRATUM)
    /\ Len(benchmark_df) <= Len(valid_segments)

\* a finished run with a stratum larger than T and a stratum no larger than T
C1_Witness ==
  /\ pc = "done"
  /\ \E k \in 1..Len(strata_counts) : strata_counts[k].count > SEGMENTS_PER_STRATUM
  /\ \E k \in 1..Len(strata_counts) : strata_counts[k].count <= SEGMENTS_PER_STRATUM

\* the columns of a valid segment row that the selection carries over
Carried(r) ==
  [idx |-> r.idx, file_name |-> r.file_name, url |-> r.url,
   audio_duration |-> r.audio_duration, original_id |-> r.original_id,
   strata |-> r.strata]

\* C2: the selection holds no row twice, and each of its rows is a row of the
\* valid (duration-filtered, joined) segments.
C2_NoRowTwiceAndSubset ==
  Sampled =>
    /\ \A j, k \in 1..Len(benchmark_df) :
         j # k => benchmark_df[j].idx # benchmark_df[k].idx
    /\ \A k \in 1..Len(benchmark_df) :
         /\ \E j \in 1..Len(valid_segments) :
              Carried(valid_segments[j]) = Carried(benchmark_df[k])
         /\ segments_df[benchmark_df[k].idx].audio_duration.t = "float"
         /\ segments_df[benchmark_df[k].idx].audio_duration.v >= 500
         /\ segments_df[benchmark_df[k].idx].audio_duration.v <= 30000

\* a finished run that selected rows of two strata, one of them by a draw
C2_Witness ==
  /\ pc = "done"
  /\ Len(strata_counts) >= 2
  /\ \E k \in 1..Len(strata_counts) : strata_counts[k].count > SEGMENTS_PER_STRATUM

\* C3: the second run of the script on the same tables, seed and target
\* produces the selection of the first run, row for row in the same order.
C3_Deterministic ==
  (run = 2 /\ Sampled) => first_run = <<benchmark_df>>

\* the second run has finished after drawing from a stratum larger than T
C3_Witness ==
  /\ run = 2
  /\ pc = "done"
  /\ \E k \in 1..Len(strata_counts) : strata_counts[k].count > SEGMENTS_PER_STRATUM

CatalogIds == {catalog_in[i].ID : i \in 1..Len(catalog_in)}

Joined == pc \in {"count", "sample", "write", "done"}

\* the row has a parent id that is a catalog identifier and carries the
\* stratum key of that catalog entry
Resolved(r) ==
  /\ r.original_id = extract_original_id(r.file_name)
  /\ \E i \in 1..Len(catalog_df) :
       /\ catalog_df[i].ID = r.original_id
       /\ catalog_df[i].strata = r.strata

\* C4: a segment whose parent id is no catalog identifier is gone before the
\* strata are counted and is not in the mapping table; every row of the
\* selection and of the mapping table resolves to a catalog entry and carries
\* its stratum key.
C4_ParentResolves ==
  /\ Joined =>
       /\ \A i \in 1..Len(segments_df) :
            extract_original_id(segments_df[i].file_name) \notin CatalogIds
              => i \notin Indexes(valid_segments)
       /\ \A k \in 1..Len(valid_segments) : Resolved(valid_segments[k])
       /\ \A k \in 1..Len(benchmark_df) : Resolved(benchmark_df[k])
  /\ pc = "done" =>
       /\ \A k \in 1..Len(strata_mapping_df) : Resolved(strata_mapping_df[k])
       /\ \A i \in 1..Len(segments_df) :
            extract_original_id(segments_df[i].file_name) \notin CatalogIds
              => \A k \in 1..Len(strata_mapping_df) :
                   strata_mapping_df[k].file_name # segments_df[i].file_name

\* a finished run whose segments table holds an eligible row of an unknown
\* parent beside a selected row
C4_Witness ==
  /\ pc = "done"
  /\ \E i \in 1..Len(segments_df) :
       /\ extract_original_id(segments_df[i].file_name) \notin CatalogIds
       /\ segments_df[i].audio_duration = Num(2000)
  /\ Len(benchmark_df) >= 1

\* the duration is a number within the inclusive bounds 0.5 s and 30.0 s
Eligible(i) ==
  /\ segments_df[i].audio_duration.t = "float"
  /\ segments_df[i].audio_duration.v >= 500
  /\ segments_df[i].audio_duration.v <= 30000

\* the catalog stratum of the parent of segment i, for a parent in the catalog
ParentStratum(i) ==
  id_to_strata[extract_original_id(segments_df[i].file_name)]

HasParent(i) == extract_original_id(segments_df[i].file_name) \in CatalogIds

\* C5: the duration filter runs before the join and before the strata are
\* counted and keeps exactly the segments with MIN <= duration <= MAX: between
\* the filter and the join the working set is exactly the eligible rows; the
\* strata counts, the mapping table and the selection hold eligible rows only,
\* and an eligible row of a known parent (a duration of exactly MIN or MAX
\* included) is counted and mapped.
C5_InclusiveFilterFirst ==
  /\ pc \in {"derive", "join"} =>
       Indexes(valid_segments) = {i \in 1..Len(segments_df) : Eligible(i)}
  /\ Joined =>
       Indexes(valid_segments) =
         {i \in 1..Len(segments_df) : Eligible(i) /\ HasParent(i)}
  /\ pc \in {"sample", "write", "done"} =>
       \A k \in 1..Len(strata_counts) :
         strata_counts[k].count =
           Cardinality({i \in 1..Len(segments_df) :
                          /\ Eligible(i)
                          /\ HasParent(i)
                          /\ ParentStratum(i) = strata_counts[k].stratum})
  /\ Sampled => \A k \in 1..Len(benchmark_df) : Eligible(benchmark_df[k].idx)
  /\ pc = "done" =>
       {strata_mapping_df[k].file_name : k \in 1..Len(strata_mapping_df)} =
         {segments_df[i].file_name :
            i \in {j \in 1..Len(segments_df) : Eligible(j) /\ HasParent(j)}}

\* a finished run on a table with a row of exactly MIN and a row of exactly
\* MAX, both mapped, and a row just outside the range
C5_Witness ==
  /\ pc = "done"
  /\ \E k \in 1..Len(strata_mapping_df) :
       strata_mapping_df[k].audio_duration = Num(MIN_SEGMENT_DURATION)
  /\ \E k \in 1..Len(strata_mapping_df) :
       strata_mapping_df[k].audio_duration = Num(MAX_SEGMENT_DURATION)
  /\ \E i \in 1..Len(segments_df) :
       segments_df[i].audio_duration \in {Num(499), Num(30001)}

\* C6: a segment row whose duration is no number is excluded like a value out
\* of range; the run does not fail on it.
C6_TextDurationExcluded ==
  (\E i \in 1..Len(segments_df) : segments_df[i].audio_duration.t = "str")
    => ~(pc = "failed"
         /\ error = "ValueError: could not convert string to float")

\* the raw duration is present and is not three integers separated by colons
Unparseable(time_str) ==
  /\ time_str # NaN
  /\ \/ Len(Split(time_str, ":")) # 3
     \/ \E i \in 1..Len(Split(time_str, ":")) :
          \E j \in 1..Len(Split(time_str, ":")[i]) :
            ~IsDigit(Split(time_str, ":")[i][j])

\* C7: parse_duration returns 0 without raising for an absent or unparseable
\* raw duration, so a malformed catalog duration never ends the run and the
\* entry is bucketed as 0 seconds, short.
C7_MalformedDurationIsZero ==
  /\ ~(pc = "failed" /\ error = "ValueError: parse_duration")
  /\ \A i \in 1..Len(catalog_df) :
       (catalog_df[i].Duration = NaN \/ Unparseable(catalog_df[i].Duration))
         => /\ catalog_df[i].split_duration_seconds = 0
            /\ catalog_df[i].duration_category = "short"

ExampleName ==
  <<"S", "T", "T", "_", "G", "R", "_", "0", "0", "0", "1", "_",
    "0", "0", "0", "3", "_", "2", "2", "3", "0", "0", "_", "t", "o", "_",
    "2", "7", "8", "0", "0">>

\* the catalog holds the entry STT_GR_0001, Adult, 00:06:00, "Q&A Session 1"
\* and the segments table the segment STT_GR_0001_0003_22300_to_27800 of 5.5 s
ExampleInputs ==
  /\ \E i \in 1..Len(catalog_in) :
       catalog_in[i] =
         [ID |-> <<"S", "T", "T", "_", "G", "R", "_", "0", "0", "0", "1">>,
          Filename |-> <<"Q", "&", "A", " ", "S", "e", "s", "s", "i", "o", "n",
                         " ", "1">>,
          Duration |-> <<"0", "0", ":", "0", "6", ":", "0", "0">>,
          AGE |-> "Adult"]
  /\ \E i \in 1..Len(segments_df) :
       /\ segments_df[i].file_name = ExampleName
       /\ segments_df[i].audio_duration = Num(5500)

\* the example's catalog entry has the content type and stratum key given,
\* and the example's segment is in the joined working set under that key
ExampleYields(content_type, key) ==
  /\ \E i \in 1..Len(catalog_df) :
       /\ catalog_df[i].ID = <<"S", "T", "T", "_", "G", "R", "_", "0", "0", "0", "1">>
       /\ catalog_df[i].split_duration_seconds = 360
       /\ catalog_df[i].duration_category = "medium"
       /\ catalog_df[i].content_type = content_type
       /\ catalog_df[i].strata = key
  /\ \E k \in 1..Len(valid_segments) :
       /\ valid_segments[k].file_name = ExampleName
       /\ valid_segments[k].original_id =
            <<"S", "T", "T", "_", "G", "R", "_", "0", "0", "0", "1">>
       /\ valid_segments[k].strata = key

\* C8 as stated: the example entry derives 360 s, medium, content type Q&A and
\* the key (Adult, medium, Q&A), which the example segment inherits.
C8_ExampleIsQandA ==
  (Joined /\ ExampleInputs) => ExampleYields("Q&A", "Adult__medium__Q&A")

\* C8 amended: the example entry derives 360 s, medium, content type Teaching
\* ("q&a session 1" does not contain "qa") and the key (Adult, medium,
\* Teaching); the example segment gets parent id STT_GR_0001, passes the
\* filter, inherits that key and is in the set eligible for sampling.
C8_ExampleIsTeaching ==
  (Joined /\ ExampleInputs) =>
    ExampleYields("Teaching", "Adult__medium__Teaching")

\* the example's inputs after the join
C8_Witness == Joined /\ ExampleInputs /\ pc = "done"

\* C9: a selected segment without a transcript (no transcript column, or no
\* value in this row) has the empty string as its transcript in the
\* ingestion-formatted table and in the structured record.
C9_MissingTranscriptIsEmpty ==
  pc = "done" =>
    \A k \in 1..Len(benchmark_df) :
      (\/ ~HasColumn(benchmark_df[k], "inference_transcript")
       \/ benchmark_df[k].inference_transcript = NaN)
        => /\ formatted_output[k].inference_transcript = <<>>
           /\ benchmark_json[k].segment_info.transcript = <<>>

\* C10: the ingestion-formatted table has one row per selected segment, in
\* selection order, with the identifiers 2159570, 2159571, ... in row order,
\* and every row has group id 33 and state transcribing.
C10_SequentialIds ==
  pc = "done" =>
    /\ Len(formatted_output) = Len(benchmark_df)
    /\ \A k \in 1..Len(formatted_output) :
         /\ formatted_output[k].file_name = benchmark_df[k].file_name
         /\ formatted_output[k].url = benchmark_df[k].url
         /\ formatted_output[k].audio_duration = benchmark_df[k].audio_duration
         /\ formatted_output[k].id = 2159570 + (k - 1)
         /\ formatted_output[k].group_id = 33
         /\ formatted_output[k].state = "transcribing"
    /\ \A j, k \in 1..Len(formatted_output) :
         j < k => formatted_output[j].id < formatted_output[k].id

\* a finished run with at least two selected rows
C10_Witness == pc = "done" /\ Len(formatted_output) >= 2

====
